---- MODULE Spec2Model ----
\* Graceful-shutdown orchestrator (package exitplan): the ExecutionPlan of
\* src/exitplan-test/cmd/testCmd.go (lines 84-271), modelled as a set of
\* concurrently running goroutines over the plan's shared fields.
EXTENDS Integers, Sequences, FiniteSets, TLC

\* ---------------------------------------------------------------- bounds
MaxStarts == 2      \* calls of Start / Wait on the one plan
MaxCalls == 4       \* calls of the plan's methods plus signals delivered

Names == {"a", "b"}        \* operation names handed to Add
Handlers == {"h1", "h2"}   \* ExitOperation values handed to Add / Finally
Nil == "nil"               \* the nil ExitOperation / absent map entry

G == 1..MaxStarts          \* the goroutine spawned by the k-th Start call

VARIABLES
    callbacks,      \* p.callbacks: name -> handler (Nil = no entry)
    rlocks,         \* goroutines holding p.callbacksMutex.RLock
    finalCallback,  \* p.finalCallback
    isTerminating,  \* p.isTerminating
    termListeners,  \* p.termListeners: sequence of channel ids
    termLock,       \* p.termLock is held: an append to the slice is under way
    interruptListen,\* p.interruptListen is locked
    closed,         \* listener channels that have been closed
    pc,             \* position of each Start goroutine
    sigbuf,         \* s (chan os.Signal, 1) of each goroutine: holds a signal
    bsnap,          \* slice handed to the broadcast goroutine
    bidx,           \* broadcast goroutine: index of the next channel to close
    timer,          \* timeoutFunc of each goroutine
    todo,           \* keys the range loop has still to visit
    wg,             \* sync.WaitGroup counter of each goroutine
    op,             \* dispose goroutine per (goroutine, name)
    fin,            \* final callback invocation of each goroutine
    sigClosed,      \* sigChannel of each goroutine is closed
    exited,         \* how the process ended ("no" while it runs)
    signalled,      \* a termination signal has been delivered
    calls,          \* method calls made and signals delivered so far
    snap,           \* history: the registry as the range loop found it
    nDisp,          \* history: dispose goroutines spawned per (goroutine, name)
    born,           \* history: the phase in which each listener was made
    fireView,       \* history: what the timer found when it fired
    lateAdds,       \* history: names registered after the flag was set
    adds,           \* history: the handlers handed to Add, per name, in order
    lastFinally,    \* history: the handler of the last Finally call
    finAtWait       \* history: p.finalCallback when wg.Wait() returned

vars == << callbacks, rlocks, finalCallback, isTerminating, termListeners,
           termLock,
           interruptListen,
           closed, pc, sigbuf, bsnap, bidx, timer, todo, wg, op, fin,
           sigClosed, exited, signalled, calls, snap, nDisp,
           born, fireView, lateAdds, adds, lastFinally, finAtWait >>

NoOp == [st |-> "none", h |-> Nil]

\* make(map[string]ExitOperation, 5): the map with no entry.
NoCallbacks == [n \in Names |-> Nil]

\* NewPlanWithTimer: the plan as constructed, no Start call made yet.
Init ==
    /\ callbacks = NoCallbacks
    /\ rlocks = {}
    /\ finalCallback = Nil
    /\ isTerminating = FALSE
    /\ termListeners = << >>
    /\ termLock = FALSE
    /\ interruptListen = FALSE
    /\ closed = {}
    /\ pc = [g \in G |-> "idle"]
    /\ sigbuf = [g \in G |-> FALSE]
    /\ bsnap = [g \in G |-> << >>]
    /\ bidx = [g \in G |-> 0]
    /\ timer = [g \in G |-> "none"]
    /\ todo = [g \in G |-> {}]
    /\ wg = [g \in G |-> 0]
    /\ op = [g \in G |-> [n \in Names |-> NoOp]]
    /\ fin = [g \in G |-> NoOp]
    /\ sigClosed = [g \in G |-> FALSE]
    /\ exited = "no"
    /\ signalled = FALSE
    /\ calls = 0
    /\ snap = [g \in G |-> NoCallbacks]
    /\ nDisp = [g \in G |-> [n \in Names |-> 0]]
    /\ born = << >>
    /\ fireView = [g \in G |-> "none"]
    /\ lateAdds = {}
    /\ adds = [n \in Names |-> << >>]
    /\ lastFinally = Nil
    /\ finAtWait = [g \in G |-> Nil]

Alive == exited = "no"

\* ------------------------------------------------------------ public API

\* func (p *ExecutionPlan) IsTerminating() bool: the field is read without
\* isTerminatingMutex; the read sees the flag as it is before or after the
\* one write, which is the order of the steps here.
IsTerminating == isTerminating

\* Mutant of HandlerFunc: the two branches are swapped.
HandlerFuncSwapped ==
    IF IsTerminating THEN << 200, "ok" >> ELSE << 503, "terminating" >>

\* func (p *ExecutionPlan) HandlerFunc: status code and body of /readyz
HandlerFunc ==
    IF IsTerminating THEN << 503, "terminating" >> ELSE << 200, "ok" >>

\* When a call is made: before any signal was delivered, after the flag was
\* set, or in between.
Phase ==
    IF isTerminating THEN "late" ELSE IF signalled THEN "mid" ELSE "pre"

\* Mutant of MapStore: an entry already there is kept.
MapStoreIfAbsent(cb, name, handler) ==
    IF cb[name] = Nil THEN [cb EXCEPT ![name] = handler] ELSE cb

\* p.callbacks[name] = handler
MapStore(cb, name, handler) == [cb EXCEPT ![name] = handler]

\* func (p *ExecutionPlan) Add(name, handler): Lock, write, Unlock. The write
\* lock is granted only while no reader holds the RWMutex.
Add(name, handler) ==
    /\ Alive
    /\ calls < MaxCalls
    /\ rlocks = {}
    /\ callbacks' = MapStore(callbacks, name, handler)
    /\ adds' = [adds EXCEPT ![name] = Append(adds[name], handler)]
    /\ calls' = calls + 1
    /\ lateAdds' = IF Phase = "late" THEN lateAdds \cup {name} ELSE lateAdds
    /\ UNCHANGED << rlocks, finalCallback, isTerminating, termListeners,
                    closed, pc, sigbuf, bsnap, bidx, timer, todo, wg, op, fin,
                    sigClosed, exited, signalled, snap, nDisp, born,
                    fireView,
                    interruptListen,
                    lastFinally, finAtWait, termLock >>

\* func (p *ExecutionPlan) Finally(handler): unguarded write of the field.
Finally(handler) ==
    /\ Alive
    /\ calls < MaxCalls
    /\ finalCallback' = handler
    /\ lastFinally' = handler
    /\ calls' = calls + 1
    /\ UNCHANGED << callbacks, rlocks, isTerminating, termListeners, closed,
                    pc, sigbuf, bsnap, bidx, timer, todo, wg, op, fin,
                    sigClosed, exited, signalled, snap, nDisp, born,
                    fireView, lateAdds,
                    interruptListen,
                    adds, finAtWait, termLock >>

\* func (p *ExecutionPlan) NewExitChan(), entry: c := make(chan struct{});
\* p.termLock.Lock() (the call blocks while another call holds the mutex);
\* the append begins to write the slice. Channels are numbered in creation
\* order.
NewExitChan ==
    /\ Alive
    /\ calls < MaxCalls
    /\ ~termLock
    /\ termLock' = TRUE
    /\ calls' = calls + 1
    /\ UNCHANGED << callbacks, rlocks, finalCallback, isTerminating, closed,
                    termListeners, born,
                    pc, sigbuf, bsnap, bidx, timer, todo, wg, op, fin,
                    sigClosed, exited, signalled, snap, nDisp, fireView,
                    lateAdds,
                    interruptListen,
                    adds, lastFinally, finAtWait >>

\* The slice once append(p.termListeners, c) has been written.
Appended(listeners) == Append(listeners, Len(listeners) + 1)

\* NewExitChan(), exit: p.termListeners = append(p.termListeners, c) is
\* written; p.termLock.Unlock(); return c.
ExitChanReturn ==
    /\ Alive
    /\ termLock
    /\ termListeners' = Appended(termListeners)
    /\ born' = Append(born, Phase)
    /\ termLock' = FALSE
    /\ UNCHANGED << callbacks, rlocks, finalCallback, isTerminating, closed,
                    pc, sigbuf, bsnap, bidx, timer, todo, wg, op, fin,
                    sigClosed, exited, signalled, calls, snap, nDisp,
                    fireView, lateAdds,
                    interruptListen,
                    adds, lastFinally, finAtWait >>

\* func (p *ExecutionPlan) Start(ctx), entry: p.interruptListen.Lock() (the
\* call blocks while another call holds the mutex), defer Unlock,
\* sigChannel := make(chan struct{}). The k-th call is the one that spawns
\* goroutine k.
Start(g) ==
    /\ Alive
    /\ pc[g] = "idle"
    /\ \A k \in G : k < g => pc[k] # "idle"
    /\ calls < MaxCalls
    /\ ~interruptListen
    /\ interruptListen' = TRUE
    /\ pc' = [pc EXCEPT ![g] = "start"]
    /\ calls' = calls + 1
    /\ UNCHANGED << callbacks, rlocks, finalCallback, isTerminating,
                    termListeners, closed, sigbuf, bsnap, bidx, timer, todo,
                    wg, op, fin, sigClosed, exited, signalled, snap, nDisp,
                    born, fireView, lateAdds,
                    adds, lastFinally, finAtWait, termLock >>

\* Start(ctx), exit: go func() {...}(); return sigChannel, on which the
\* deferred p.interruptListen.Unlock() runs.
StartReturn(g) ==
    /\ Alive
    /\ pc[g] = "start"
    /\ interruptListen' = FALSE
    /\ pc' = [pc EXCEPT ![g] = "notify"]
    /\ UNCHANGED << callbacks, rlocks, finalCallback, isTerminating,
                    termListeners, closed, sigbuf, bsnap, bidx, timer, todo,
                    wg, op, fin, sigClosed, exited, signalled, calls, snap,
                    nDisp, born, fireView, lateAdds,
                    adds, lastFinally, finAtWait, termLock >>

\* Wait(ctx) is <-p.Start(ctx): the caller of the k-th call is released
\* when goroutine k has closed its sigChannel.
WaitReturned(g) == sigClosed[g]

\* ------------------------------------------------- the Start goroutine

\* s := make(chan os.Signal, 1); signal.Notify(s, p.Signals...)
Notify(g) ==
    /\ Alive
    /\ pc[g] = "notify"
    /\ pc' = [pc EXCEPT ![g] = "wait"]
    /\ UNCHANGED << callbacks, rlocks, finalCallback, isTerminating,
                    termListeners, closed, sigbuf, bsnap, bidx, timer, todo,
                    wg, op, fin, sigClosed, exited, signalled, calls,
                    snap, nDisp, born, fireView, lateAdds,
                    interruptListen,
                    adds, lastFinally, finAtWait, termLock >>

Notified(g) == pc[g] \notin {"idle", "start", "notify"}

\* The OS delivers SIGINT, SIGTERM or SIGHUP. With no channel registered by
\* signal.Notify the Go runtime's default disposition ends the process;
\* otherwise the signal is sent, without blocking, to every registered
\* channel (capacity 1: dropped when the buffer is full).
Signal ==
    /\ Alive
    /\ calls < MaxCalls
    /\ calls' = calls + 1
    /\ signalled' = TRUE
    /\ IF \E g \in G : Notified(g)
         THEN /\ sigbuf' = [g \in G |-> sigbuf[g] \/ Notified(g)]
              /\ exited' = exited
         ELSE /\ sigbuf' = sigbuf
              /\ exited' = "signal"
    /\ UNCHANGED << callbacks, rlocks, finalCallback, isTerminating,
                    termListeners, closed, pc, bsnap, bidx, timer, todo, wg,
                    op, fin, sigClosed, snap, nDisp, born, fireView, lateAdds,
                    interruptListen,
                    adds, lastFinally, finAtWait, termLock >>

\* Mutant of Flagged: the flag is flipped instead of set.
FlaggedFlip(old) == ~old

\* Mutant of Flagged: the assignment is missing.
FlaggedNot(old) == old

\* p.isTerminating = true: the value of the flag after the assignment.
Flagged(old) == TRUE

\* <-s, then (under isTerminatingMutex) p.isTerminating = true
Receive(g) ==
    /\ Alive
    /\ pc[g] = "wait"
    /\ sigbuf[g]
    /\ sigbuf' = [sigbuf EXCEPT ![g] = FALSE]
    /\ isTerminating' = Flagged(isTerminating)
    /\ pc' = [pc EXCEPT ![g] = "flagged"]
    /\ UNCHANGED << callbacks, rlocks, finalCallback, termListeners, closed,
                    bsnap, bidx, timer, todo, wg, op, fin, sigClosed, exited,
                    signalled, calls, snap, nDisp, born,
                    fireView, lateAdds,
                    interruptListen,
                    adds, lastFinally, finAtWait, termLock >>

\* A channel value that is not a channel made by NewExitChan: nil, or
\* whatever the memory past the slice holds.
NoChan == 0

\* What a read of p.termListeners without termLock can return. With no
\* append under way it is the slice. During one, the three words of the
\* slice header are read while they are written: the read returns the old
\* slice, the new one, or the new length over memory in which the new
\* element is not (yet) there.
SliceRead ==
    IF termLock
      THEN {termListeners, Appended(termListeners),
            Append(termListeners, NoChan)}
      ELSE {termListeners}

\* go func(termListeners []chan struct{}) {...}(p.termListeners): the slice
\* is read (without termLock) when the go statement runs; the goroutine
\* closes its channels later. The caller goes on to time.Sleep(GradePeriod).
SpawnBroadcast(g) ==
    /\ Alive
    /\ pc[g] = "flagged"
    /\ \E view \in SliceRead : bsnap' = [bsnap EXCEPT ![g] = view]
    /\ bidx' = [bidx EXCEPT ![g] = 1]
    /\ pc' = [pc EXCEPT ![g] = "sleep"]
    /\ UNCHANGED << callbacks, rlocks, finalCallback, isTerminating,
                    termListeners, closed, sigbuf, timer, todo, wg, op, fin,
                    sigClosed, exited, signalled, calls, snap, nDisp,
                    born, fireView, lateAdds,
                    interruptListen,
                    adds, lastFinally, finAtWait, termLock >>

\* for _, c := range termListeners { close(c) }: one iteration. Closing a
\* closed channel, or what is not a channel, panics, which ends the process.
BroadcastClose(g) ==
    /\ Alive
    /\ bidx[g] >= 1
    /\ bidx[g] <= Len(bsnap[g])
    /\ LET c == bsnap[g][bidx[g]] IN
        IF c \in closed \/ c = NoChan
          THEN /\ exited' = "panic"
               /\ UNCHANGED << closed, bidx >>
          ELSE /\ closed' = closed \cup {c}
               /\ bidx' = [bidx EXCEPT ![g] = bidx[g] + 1]
               /\ exited' = exited
    /\ UNCHANGED << callbacks, rlocks, finalCallback, isTerminating,
                    termListeners, pc, sigbuf, bsnap, timer, todo, wg, op,
                    fin, sigClosed, signalled, calls, snap, nDisp,
                    born, fireView, lateAdds,
                    interruptListen,
                    adds, lastFinally, finAtWait, termLock >>

\* Mutant of RangeKeys: the loop visits the registry as it was when the
\* flag was set.
RangeKeysAtSignal(cb) == {n \in Names : cb[n] # Nil /\ n \notin lateAdds}

\* The keys a range over the map visits.
RangeKeys(cb) == {n \in Names : cb[n] # Nil}

\* time.Sleep(p.GradePeriod) returns; timeoutFunc := time.AfterFunc(...)
\* arms the timer; p.callbacksMutex.RLock(); the range over p.callbacks
\* begins (the map cannot change until RUnlock). Over an empty map the loop
\* is over at once: RUnlock, and the goroutine enters wg.Wait().
BeginCleanup(g) ==
    /\ Alive
    /\ pc[g] = "sleep"
    /\ timer' = [timer EXCEPT ![g] = "armed"]
    /\ todo' = [todo EXCEPT ![g] = RangeKeys(callbacks)]
    /\ snap' = [snap EXCEPT ![g] = callbacks]
    /\ IF RangeKeys(callbacks) = {}
         THEN /\ pc' = [pc EXCEPT ![g] = "wgwait"]
              /\ UNCHANGED rlocks
         ELSE /\ pc' = [pc EXCEPT ![g] = "range"]
              /\ rlocks' = rlocks \cup {g}
    /\ UNCHANGED << callbacks, finalCallback, isTerminating, termListeners,
                    closed, sigbuf, bsnap, bidx, wg, op, fin, sigClosed,
                    exited, signalled, calls, nDisp, born, fireView,
                    lateAdds, interruptListen,
                    adds, lastFinally, finAtWait, termLock >>

\* Mutant of Visited: the iteration does not advance past its key.
VisitedAgain(keys, n) == keys

\* What is left to visit after the iteration for key n.
Visited(keys, n) == keys \ {n}

\* One iteration of the loop, in any order: wg.Add(1); go func(key, op).
\* After the last one: RUnlock, and the goroutine enters wg.Wait().
\* (nDisp only counts; its cap of 2 is never met by a loop that advances.)
Dispatch(g, n) ==
    /\ Alive
    /\ pc[g] = "range"
    /\ n \in todo[g]
    /\ nDisp[g][n] < 2
    /\ wg' = [wg EXCEPT ![g] = wg[g] + 1]
    /\ op' = [op EXCEPT ![g][n] = [st |-> "spawned", h |-> callbacks[n]]]
    /\ nDisp' = [nDisp EXCEPT ![g][n] = nDisp[g][n] + 1]
    /\ todo' = [todo EXCEPT ![g] = Visited(todo[g], n)]
    /\ IF Visited(todo[g], n) = {}
         THEN /\ pc' = [pc EXCEPT ![g] = "wgwait"]
              /\ rlocks' = rlocks \ {g}
         ELSE UNCHANGED << pc, rlocks >>
    /\ UNCHANGED << callbacks, finalCallback, isTerminating, termListeners,
                    closed, sigbuf, bsnap, bidx, timer, fin, sigClosed,
                    exited, signalled, calls, snap, born, fireView, lateAdds,
                    interruptListen,
                    adds, lastFinally, finAtWait, termLock >>

\* The dispose goroutine runs: it logs "disposing" and calls dispose(ctx).
OpStart(g, n) ==
    /\ Alive
    /\ op[g][n].st = "spawned"
    /\ op' = [op EXCEPT ![g][n].st = "running"]
    /\ UNCHANGED << callbacks, rlocks, finalCallback, isTerminating,
                    termListeners, closed, pc, sigbuf, bsnap, bidx, timer,
                    todo, wg, fin, sigClosed, exited, signalled, calls, snap,
                    nDisp, born, fireView, lateAdds,
                    interruptListen,
                    adds, lastFinally, finAtWait, termLock >>

\* defer wg.Done(): the counter after a dispose goroutine has returned,
\* whether by the return on an error or off the end of the function.
WgDone(w, res) == w - 1

\* dispose(ctx) returns nil or an error (logged); the deferred wg.Done() runs.
OpReturn(g, n, res) ==
    /\ Alive
    /\ op[g][n].st = "running"
    /\ op' = [op EXCEPT ![g][n].st = res]
    /\ wg' = [wg EXCEPT ![g] = WgDone(wg[g], res)]
    /\ UNCHANGED << callbacks, rlocks, finalCallback, isTerminating,
                    termListeners, closed, pc, sigbuf, bsnap, bidx, timer,
                    todo, fin, sigClosed, exited, signalled, calls,
                    snap, nDisp, born, fireView, lateAdds,
                    interruptListen,
                    adds, lastFinally, finAtWait, termLock >>

\* timeoutFunc.Stop(): a timer that has not fired is stopped; one whose
\* function is already running is left alone.
StopTimer(t) == IF t = "armed" THEN "stopped" ELSE t

\* Mutant of WgWaitReturns: the wait does not wait.
WgWaitReturnsAtOnce(g) == TRUE

\* wg.Wait() returns once the counter is zero.
WgWaitReturns(g) == wg[g] = 0

\* wg.Wait() returns; timeoutFunc.Stop()
WaitStop(g) ==
    /\ Alive
    /\ pc[g] = "wgwait"
    /\ WgWaitReturns(g)
    /\ timer' = [timer EXCEPT ![g] = StopTimer(timer[g])]
    /\ pc' = [pc EXCEPT ![g] = "final"]
    /\ finAtWait' = [finAtWait EXCEPT ![g] = finalCallback]
    /\ UNCHANGED << callbacks, rlocks, finalCallback, isTerminating,
                    termListeners, closed, sigbuf, bsnap, bidx, todo, wg, op,
                    fin, sigClosed, exited, signalled, calls, snap,
                    nDisp, born, fireView, lateAdds,
                    interruptListen,
                    adds, lastFinally, termLock >>

\* Mutant of ReadFinal: the field is read when wg.Wait() returns.
ReadFinalAtWait(g) == finAtWait[g]

\* p.finalCallback as goroutine g reads it for the nil test and the call.
ReadFinal(g) == finalCallback

\* if p.finalCallback != nil { p.finalCallback(ctx) ... }: the field is read
\* (unguarded, as Finally writes it) and the callback is entered; with none
\* set the goroutine goes straight to close(sigChannel).
FinalEnter(g) ==
    /\ Alive
    /\ pc[g] = "final"
    /\ IF ReadFinal(g) # Nil
         THEN /\ fin' = [fin EXCEPT ![g] = [st |-> "running",
                                             h |-> ReadFinal(g)]]
              /\ pc' = [pc EXCEPT ![g] = "finalRun"]
              /\ UNCHANGED sigClosed
         ELSE /\ sigClosed' = [sigClosed EXCEPT ![g] = TRUE]
              /\ pc' = [pc EXCEPT ![g] = "done"]
              /\ UNCHANGED fin
    /\ UNCHANGED << callbacks, rlocks, finalCallback, isTerminating,
                    termListeners, closed, sigbuf, bsnap, bidx, timer, todo,
                    wg, op, exited, signalled, calls, snap, nDisp,
                    born, fireView, lateAdds,
                    interruptListen,
                    adds, lastFinally, finAtWait, termLock >>

\* Where the goroutine goes when p.finalCallback(ctx) has returned res: an
\* error is logged and the goroutine returns; otherwise it goes on to
\* close(sigChannel).
AfterFinal(res) == IF res = "err" THEN "failed" ELSE "done"

\* p.finalCallback(ctx) returns nil or an error.
FinalReturn(g, res) ==
    /\ Alive
    /\ pc[g] = "finalRun"
    /\ fin' = [fin EXCEPT ![g].st = res]
    /\ pc' = [pc EXCEPT ![g] = AfterFinal(res)]
    /\ sigClosed' = [sigClosed EXCEPT ![g] = (AfterFinal(res) = "done")]
    /\ UNCHANGED << callbacks, rlocks, finalCallback, isTerminating,
                    termListeners, closed, sigbuf, bsnap, bidx, timer, todo,
                    wg, op, exited, signalled, calls, snap, nDisp,
                    born, fireView, lateAdds,
                    interruptListen,
                    adds, lastFinally, finAtWait, termLock >>

\* ------------------------------------------------------ the Deadline Guard

\* What the goroutine was doing when its timer fired.
View(g) ==
    IF pc[g] = "wgwait" /\ wg[g] = 0 THEN "returned" ELSE "pending"

\* Mutant of TimerFire: the timeout runs from the receipt of the signal.
TimerFireFromReceipt(g) ==
    /\ Alive
    /\ \/ timer[g] = "armed"
       \/ timer[g] = "none" /\ pc[g] \in {"flagged", "sleep"}
    /\ timer' = [timer EXCEPT ![g] = "fired"]
    /\ fireView' = [fireView EXCEPT ![g] = View(g)]
    /\ UNCHANGED << callbacks, rlocks, finalCallback, isTerminating,
                    termListeners, closed, pc, sigbuf, bsnap, bidx, todo, wg,
                    op, fin, sigClosed, exited, signalled, calls,
                    snap, nDisp, born, lateAdds,
                    interruptListen,
                    adds, lastFinally, finAtWait, termLock >>

\* p.Timeout has elapsed on a timer that was not stopped: the runtime starts
\* the AfterFunc function in its own goroutine (it logs, then exits).
TimerFire(g) ==
    /\ Alive
    /\ timer[g] = "armed"
    /\ timer' = [timer EXCEPT ![g] = "fired"]
    /\ fireView' = [fireView EXCEPT ![g] = View(g)]
    /\ UNCHANGED << callbacks, rlocks, finalCallback, isTerminating,
                    termListeners, closed, pc, sigbuf, bsnap, bidx, todo, wg,
                    op, fin, sigClosed, exited, signalled, calls,
                    snap, nDisp, born, lateAdds,
                    interruptListen,
                    adds, lastFinally, finAtWait, termLock >>

\* os.Exit(0) in the AfterFunc function.
ForceExit(g) ==
    /\ Alive
    /\ timer[g] = "fired"
    /\ exited' = "timeout"
    /\ UNCHANGED << callbacks, rlocks, finalCallback, isTerminating,
                    termListeners, closed, pc, sigbuf, bsnap, bidx, timer,
                    todo, wg, op, fin, sigClosed, signalled, calls,
                    snap, nDisp, born, fireView, lateAdds,
                    interruptListen,
                    adds, lastFinally, finAtWait, termLock >>

\* ------------------------------------------------------------ the system

Results == {"ok", "err"}

Next ==
    \/ \E n \in Names, h \in Handlers : Add(n, h)
    \/ \E h \in Handlers : Finally(h)
    \/ NewExitChan
    \/ ExitChanReturn
    \/ Signal
    \/ \E g \in G : Start(g)
    \/ \E g \in G : StartReturn(g)
    \/ \E g \in G : Notify(g)
    \/ \E g \in G : Receive(g)
    \/ \E g \in G : SpawnBroadcast(g)
    \/ \E g \in G : BroadcastClose(g)
    \/ \E g \in G : BeginCleanup(g)
    \/ \E g \in G, n \in Names : Dispatch(g, n)
    \/ \E g \in G, n \in Names : OpStart(g, n)
    \/ \E g \in G, n \in Names, r \in Results : OpReturn(g, n, r)
    \/ \E g \in G : WaitStop(g)
    \/ \E g \in G : FinalEnter(g)
    \/ \E g \in G, r \in Results : FinalReturn(g, r)
    \/ \E g \in G : TimerFire(g)
    \/ \E g \in G : ForceExit(g)

Spec == Init /\ [][Next]_vars

\* The Go scheduler runs every runnable goroutine and a sleep ends.
Scheduling(g) ==
    /\ WF_vars(Notify(g))
    /\ WF_vars(Receive(g))
    /\ WF_vars(SpawnBroadcast(g))
    /\ WF_vars(BroadcastClose(g))
    /\ WF_vars(BeginCleanup(g))
    /\ WF_vars(\E n \in Names : Dispatch(g, n))
    /\ WF_vars(\E n \in Names : OpStart(g, n))
    /\ WF_vars(WaitStop(g))
    /\ WF_vars(FinalEnter(g))

\* The Go scheduler runs every runnable goroutine, a call of NewExitChan
\* that holds termLock goes on to return, a sleep ends, and a timer that
\* stays armed fires. Nothing makes the callers call, the OS signal, or a
\* cleanup operation or the final callback return.
Fairness ==
    /\ WF_vars(ExitChanReturn)
    /\ \A g \in G :
           /\ Scheduling(g)
           /\ WF_vars(TimerFire(g))
           /\ WF_vars(ForceExit(g))

FairSpec == Spec /\ Fairness

\* The plan used with operations and a final callback that return, under a
\* Timeout as long as one likes: the goroutines run, every dispose(ctx) and
\* p.finalCallback(ctx) that was entered returns (nil or an error), and the
\* timer fires or not as it may.
Returning ==
    /\ WF_vars(ExitChanReturn)
    /\ \A g \in G :
           /\ Scheduling(g)
           /\ WF_vars(ForceExit(g))
           /\ WF_vars(\E r \in Results : FinalReturn(g, r))
           /\ \A n \in Names :
                  WF_vars(\E r \in Results : OpReturn(g, n, r))

ReturningSpec == Spec /\ Returning

\* ------------------------------------------------------------ properties

\* The listeners returned by NewExitChan in a phase.
Listeners(phase) == {c \in 1..Len(born) : born[c] = phase}

\* Goroutine g has taken its signal from s.
Received(g) == pc[g] \notin {"idle", "start", "notify", "wait"}

\* Goroutine g has run to its end.
Returned(g) == pc[g] \in {"done", "failed"}

\* Goroutine g has not yet read the registry.
PreRead == {"idle", "start", "notify", "wait", "flagged", "sleep"}

\* The range loop of goroutine g has visited every key.
LoopOver(g) == pc[g] \in {"wgwait", "final", "finalRun", "done", "failed"}

\* C1: within one shutdown sequence no name is dispatched twice, and once
\* the dispatch loop is over every name that was in the registry when the
\* loop read it has been dispatched exactly once and every other name not
\* at all, whatever the order of the Add calls and whatever the dispatched
\* operations return.
C1_DispatchedExactlyOnce ==
    \A g \in G, n \in Names :
        /\ nDisp[g][n] <= 1
        /\ LoopOver(g) => nDisp[g][n] = (IF snap[g][n] # Nil THEN 1 ELSE 0)

\* C1 witness: two names were registered, one operation has already failed
\* and the other was dispatched all the same.
C1_Witness ==
    \E g \in G, n \in Names, m \in Names :
        /\ n # m
        /\ LoopOver(g)
        /\ op[g][n].st = "err"
        /\ nDisp[g][n] = 1
        /\ nDisp[g][m] = 1

\* C2: in one shutdown sequence the final callback is entered only when
\* the loop is over and every operation it dispatched has returned (nil or
\* error), so it never runs beside one of them; and sigChannel is closed
\* only when those operations have returned and the final callback, if it
\* was entered, has returned.
C2_FinalAfterCleanup ==
    \A g \in G :
        /\ (fin[g].st # "none" \/ sigClosed[g]) =>
               /\ LoopOver(g)
               /\ \A n \in Names :
                      op[g][n].st \in (IF snap[g][n] # Nil
                                        THEN {"ok", "err"} ELSE {"none"})
        /\ sigClosed[g] => fin[g].st # "running"

\* C2 witness: an operation has returned, the final callback has run and
\* returned, and the handle is closed.
C2_Witness ==
    \E g \in G, n \in Names :
        /\ sigClosed[g]
        /\ fin[g].st = "ok"
        /\ op[g][n].st \in {"ok", "err"}

\* C3: a Start goroutine that has run to its end, whatever the final callback
\* returned, has closed its handle, so the caller blocked in Wait is released.
C3_FinalErrorStillDone ==
    \A g \in G : Returned(g) => WaitReturned(g)

\* C4: once a goroutine has started its grade-period sleep (and so before any
\* cleanup operation begins), every listener returned before the signal was
\* delivered is closed.
C4_ListenersClosedBeforeGrace ==
    \A g \in G :
        pc[g] \notin {"idle", "start", "notify", "wait", "flagged"} =>
            Listeners("pre") \subseteq closed

\* C5: when the timeout elapses (the timer fires) with a dispatched operation
\* still pending, the final callback is never invoked; when it fires after
\* they have all returned, a final callback that is set is still invoked
\* before the process is gone.
C5_DeadlineDecides ==
    \A g \in G :
        /\ fireView[g] = "pending" => fin[g].st = "none"
        /\ (fireView[g] = "returned" /\ finalCallback # Nil
                /\ exited = "timeout") =>
               fin[g].st # "none"

\* C6: at most one signal-waiting goroutine is ever installed on the plan,
\* however many times Start is called.
C6_SingleSequence ==
    Cardinality({g \in G : pc[g] \notin {"idle", "start"}}) <= 1

\* C7: IsTerminating() is false as long as no goroutine has received a
\* signal and true from then on, and it never goes from true to false.
C7_FlagMonotonic ==
    [][ /\ IsTerminating <=> (\E g \in G : Received(g))
        /\ IsTerminating' <=> (\E g \in G : Received(g)')
        /\ IsTerminating => IsTerminating' ]_vars

\* C7 witness: two goroutines have received the signal, one has finished its
\* shutdown sequence, and the flag is set.
C7_Witness ==
    /\ IsTerminating
    /\ \E g \in G, k \in G : g # k /\ Received(g) /\ sigClosed[k]

\* C8: a listener made after the flag was set is eventually closed (unless
\* the process ends first).
C8_LateListenerClosed ==
    \A c \in 1..MaxCalls :
        [](c \in Listeners("late") => <>(c \in closed \/ ~Alive))

\* C9: once the Deadline Guard is armed the sequence eventually reaches Done
\* (handle closed) or the process exits.
C9_BoundedShutdown ==
    \A g \in G : [](timer[g] = "armed" => <>(sigClosed[g] \/ ~Alive))

\* C10: no goroutine reads the registry or dispatches before its grade period
\* is over; while the loop runs the registry is what the loop read; and when
\* the loop is over exactly the names the registry held at the read, with the
\* handlers it held, have been dispatched, whatever Add did before or after.
C10_ReadAfterGrace ==
    \A g \in G :
        /\ pc[g] \in PreRead =>
               /\ snap[g] = NoCallbacks
               /\ \A n \in Names : op[g][n] = NoOp
        /\ pc[g] = "range" => snap[g] = callbacks
        /\ LoopOver(g) =>
               \A n \in Names :
                   /\ (op[g][n].st # "none") <=> (snap[g][n] # Nil)
                   /\ op[g][n].h = snap[g][n]

\* C10 witness: of two names added after the flag was set, the one added
\* before the read was dispatched and the one added after it was not.
C10_Witness ==
    \E g \in G, n \in lateAdds, m \in lateAdds :
        /\ LoopOver(g)
        /\ op[g][n].st # "none"
        /\ op[g][m].st = "none"
        /\ callbacks[m] # Nil

\* Every operation goroutine g dispatched has returned.
AllReturned(g) ==
    /\ LoopOver(g)
    /\ \A n \in Names : op[g][n].st \in {"none", "ok", "err"}

\* The process was ended, and not by the timer of goroutine g.
EndedElsewhere(g) == ~Alive /\ timer[g] # "fired"

\* C11: when a dispatched operation has returned an error, then, the
\* operations and the final callback being ones that return, every
\* operation of the sequence returns and its handle is closed, unless the
\* final callback returned an error, the deadline fired with an operation
\* still pending, or the process was ended from outside the sequence.
C11_ErrorDoesNotAbort ==
    \A g \in G, n \in Names :
        [](op[g][n].st = "err" =>
              <>(\/ AllReturned(g) /\ (sigClosed[g] \/ fin[g].st = "err")
                 \/ fireView[g] = "pending"
                 \/ EndedElsewhere(g)))

\* C12: a probe of the readiness handler is answered 200 "ok" exactly when
\* IsTerminating() is false and 503 "terminating" exactly when it is true;
\* it is "ok" as long as no goroutine has taken a signal, and "terminating"
\* in every state from then on: grade period, dispatch, wait, final
\* callback and after.
C12_ReadinessFollowsFlag ==
    /\ (HandlerFunc = << 200, "ok" >>) <=> ~IsTerminating
    /\ (HandlerFunc = << 503, "terminating" >>) <=> IsTerminating
    /\ (\E g \in G : Received(g)) => HandlerFunc = << 503, "terminating" >>
    /\ (\A g \in G : ~Received(g)) => HandlerFunc = << 200, "ok" >>

\* C12 witness: a probe made while the final callback runs, after an
\* operation was dispatched and returned, is answered "terminating".
C12_Witness ==
    \E g \in G, n \in Names :
        /\ pc[g] = "finalRun"
        /\ op[g][n].st \in {"ok", "err"}
        /\ HandlerFunc = << 503, "terminating" >>

\* C13: the timer function of a sequence never ends the process once the
\* final callback of that sequence has been entered or its handle has been
\* closed.
C13_NoExitAfterFinal ==
    [][\A g \in G :
           ForceExit(g) => (fin[g].st = "none" /\ ~sigClosed[g])]_vars

\* C14: the flag is set before the broadcast: whenever a broadcast goroutine
\* has been spawned, and whenever a listener is closed, IsTerminating() is
\* true.
C14_FlagBeforeBroadcast ==
    /\ closed # {} => IsTerminating
    /\ \A g \in G : bidx[g] >= 1 => IsTerminating

\* C14 witness: a listener has been closed (and the flag is set).
C14_Witness ==
    \E g \in G : bidx[g] > 1 /\ closed # {} /\ IsTerminating

\* A goroutine that has taken its signal and whose time.Sleep(GradePeriod)
\* has not returned.
InGrade(g) == pc[g] \in {"flagged", "sleep"}

\* C15: while a sequence is between the receipt of its signal and the end
\* of its grade-period sleep, IsTerminating() is true and none of its
\* operations has been dispatched or started.
C15_NothingStartsInGrade ==
    \A g \in G :
        InGrade(g) =>
            /\ IsTerminating
            /\ \A n \in Names : op[g][n].st = "none" /\ nDisp[g][n] = 0
            /\ wg[g] = 0

\* C15 witness: a goroutine sleeps through its grade period while an
\* operation is registered and has not been started.
C15_Witness ==
    \E g \in G, n \in Names :
        /\ pc[g] = "sleep"
        /\ callbacks[n] # Nil
        /\ op[g][n].st = "none"
        /\ IsTerminating

\* C16: the timeout runs from the start of the cleanup phase: as long as a
\* sequence waits for its signal or is in its grade period (however long
\* that lasts) its timer does not exist, so it cannot fire or end the
\* process; and a process ended by the timeout has a sequence past its
\* grade period whose timer fired.
C16_NoDeadlineBeforeCleanup ==
    /\ \A g \in G : pc[g] \in PreRead => timer[g] = "none"
    /\ exited = "timeout" =>
           \E g \in G : pc[g] \notin PreRead /\ timer[g] = "fired"

\* C16 witness: a goroutine is still in its grade period after its whole
\* broadcast has run, with no timer, and the process runs.
C16_Witness ==
    \E g \in G :
        /\ pc[g] = "sleep"
        /\ Len(bsnap[g]) >= 1
        /\ bidx[g] > Len(bsnap[g])
        /\ timer[g] = "none"
        /\ Alive

\* The handler of the most recent Add(n, ...) call (Nil when there was none).
LastAdded(n) == IF adds[n] = << >> THEN Nil ELSE adds[n][Len(adds[n])]

\* C17: Add under a name already registered overwrites: a call Add(n, h)
\* leaves the entries of the other names as they were, and the operation
\* a sequence dispatches for n is, once, the handler of the most recent
\* Add(n, ...) call, never one handed to an earlier call.
C17_AddOverwrites ==
    [][ /\ \A n \in Names, h \in Handlers :
               Add(n, h) =>
                   /\ callbacks'[n] = h
                   /\ \A m \in Names \ {n} : callbacks'[m] = callbacks[m]
        /\ \A g \in G, n \in Names :
               Dispatch(g, n) =>
                   /\ op'[g][n].h = LastAdded(n)
                   /\ nDisp'[g][n] = 1 ]_vars

\* C17 witness: a name was registered with one handler and then with
\* another, and the sequence has run the second one.
C17_Witness ==
    \E g \in G, n \in Names :
        /\ Len(adds[n]) = 2
        /\ adds[n][1] # adds[n][2]
        /\ op[g][n].st \in {"ok", "err"}
        /\ op[g][n].h = adds[n][2]

\* The dispatch loop of goroutine g found no operation registered, and a
\* final callback is set.
ZeroOps(g) ==
    /\ LoopOver(g)
    /\ snap[g] = NoCallbacks
    /\ finalCallback # Nil

\* C18: a sequence that found no operation and has a final callback runs no
\* operation, is not ended by its timer, and reaches Done with its handle
\* closed (unless the process is ended from outside the sequence).
C18_ZeroOpsStraightToDone ==
    \A g \in G :
        [](ZeroOps(g) =>
              /\ \A n \in Names : op[g][n].st = "none"
              /\ ~(exited = "timeout" /\ timer[g] = "fired")
              /\ <>(sigClosed[g] \/ EndedElsewhere(g)))

\* C19: no broadcast reads the listener slice while an append to it is under
\* way, and no broadcast closes a listener that is already closed (or what
\* is not a listener), which would end the process by a panic.
C19_BroadcastSafe ==
    [][ /\ \A g \in G : SpawnBroadcast(g) => ~termLock
        /\ exited' # "panic" ]_vars

\* C20 as stated: the final callback a sequence invokes is the handler of
\* the most recent Finally call completed before all its cleanup operations
\* had finished (taken at the latest such moment, the return of wg.Wait()).
C20_FinalAsOfCleanupEnd ==
    [][\A g \in G : FinalEnter(g) => fin'[g].h = finAtWait[g]]_vars

\* C20 amended: the final callback is read when the FinalCallback state is
\* entered: the handler a sequence invokes is the one of the most recent
\* Finally call completed before that read, also when that call came after
\* the signal, after the dispatch or after the last operation finished; no
\* handler of an earlier call is invoked, and a sequence invokes it at most
\* once.
C20_FinalAsOfEntry ==
    [][\A g \in G :
           FinalEnter(g) =>
               /\ fin[g] = NoOp
               /\ fin'[g].h = lastFinally
               /\ lastFinally # Nil => fin'[g].st = "running"]_vars

\* C20 witness: a sequence has invoked a handler that Finally set after its
\* wg.Wait() had returned, in place of the one set before.
C20_Witness ==
    \E g \in G :
        /\ fin[g].st # "none"
        /\ finAtWait[g] # Nil
        /\ fin[g].h # finAtWait[g]

====
